---- MODULE Spec2Model ----
(***************************************************************************)
(* Authentication and rate-limit gate of the talkify backend:              *)
(* token verification against the denylist (core/security.py), identity   *)
(* resolution and the request gate (api/dependencies.py), the endpoints    *)
(* that denylist tokens (api/v1/logout.py, api/v1/users.py) and the        *)
(* startup barrier (core/setup.py).                                        *)
(***************************************************************************)
EXTENDS Integers, Sequences, FiniteSets, TLC

None == "None"

(* ------------------------------ bounds --------------------------------- *)
NumRequests == 3       \* request slots in flight at the gate
MaxTicks == 2          \* clock steps
MaxOver == 2           \* requests admitted on a counter that is over the limit
MaxCalls == 2          \* endpoint calls (logout, erase_user, ...)

Requests == 1..NumRequests

(* --------------------------- configuration ----------------------------- *)
ACCESS_TOKEN_EXPIRE_MINUTES == 30
REFRESH_TOKEN_EXPIRE_DAYS == 7
DEFAULT_RATE_LIMIT_LIMIT == 10
DEFAULT_RATE_LIMIT_PERIOD == 3600

\* The clock advances in steps of one access-token lifetime (in seconds).
TimeStep == ACCESS_TOKEN_EXPIRE_MINUTES * 60

\* DefaultRateLimitSettings as shipped.
ShippedSettings ==
    [DEFAULT_RATE_LIMIT_LIMIT |-> DEFAULT_RATE_LIMIT_LIMIT,
     DEFAULT_RATE_LIMIT_PERIOD |-> DEFAULT_RATE_LIMIT_PERIOD]

\* DefaultRateLimitSettings as overridden from the environment by a
\* deployment that wants a tight quota.
TightSettings ==
    { [DEFAULT_RATE_LIMIT_LIMIT |-> 1,
       DEFAULT_RATE_LIMIT_PERIOD |-> DEFAULT_RATE_LIMIT_PERIOD],
      [DEFAULT_RATE_LIMIT_LIMIT |-> 2,
       DEFAULT_RATE_LIMIT_PERIOD |-> DEFAULT_RATE_LIMIT_PERIOD \div 2] }

(* ------------------------------- users --------------------------------- *)
UserNames == {"alice", "bob"}

Email(u) == IF u = "alice" THEN "alice@x" ELSE "bob@x"

\* Columns of the users table: the keys of every dict crud_users.get returns.
UsersColumns ==
    {"id", "name", "username", "email", "hashed_password", "profile_image_url",
     "created_at", "updated_at", "deleted_at", "is_deleted"}

\* Subjects a token may carry: a username, an email, a user that never
\* existed, or no "sub" claim at all.
Subjects == {"alice", "bob@x", "ghost", None}

\* Passwords: bcrypt as a one-way map from the plain password to its hash.
Passwords == {"secret", "guess"}

get_password_hash(password) == IF password = "secret" THEN "hash" ELSE "other-hash"

verify_password(plain_password, hashed_password) ==
    get_password_hash(plain_password) = hashed_password

\* "@" in s
Contains_at(s) == s \in {"alice@x", "bob@x", "ghost@x"}

(* ------------------------------- tokens -------------------------------- *)
TokenType == {"access", "refresh"}

\* The claims create_access_token signs: data plus exp and token_type.
AccessClaims(sub, issued) ==
    [sub |-> sub, token_type |-> "access",
     exp |-> issued + ACCESS_TOKEN_EXPIRE_MINUTES * 60]

\* The claims create_refresh_token signs.
RefreshClaims(sub, issued) ==
    [sub |-> sub, token_type |-> "refresh",
     exp |-> issued + REFRESH_TOKEN_EXPIRE_DAYS * 86400]

\* The token strings in circulation: what each encodes and whether it was
\* signed with SECRET_KEY ("f1" is "a1" re-signed with another key).
Issued ==
    [a0 |-> [claims |-> AccessClaims("alice", 0), signed |-> TRUE],
     a1 |-> [claims |-> AccessClaims("alice", TimeStep), signed |-> TRUE],
     r0 |-> [claims |-> RefreshClaims("alice", 0), signed |-> TRUE],
     b0 |-> [claims |-> AccessClaims("bob@x", 0), signed |-> TRUE],
     g0 |-> [claims |-> AccessClaims("ghost", 0), signed |-> TRUE],
     n0 |-> [claims |-> AccessClaims(None, 0), signed |-> TRUE],
     f1 |-> [claims |-> AccessClaims("alice", TimeStep), signed |-> FALSE]]

Tokens == DOMAIN Issued

\* jwt.encode with SECRET_KEY: the string that carries the claims.
jwt_encode(claims) ==
    CHOOSE s \in Tokens : Issued[s].signed /\ Issued[s].claims = claims

create_access_token(sub, issued) == jwt_encode(AccessClaims(sub, issued))

create_refresh_token(sub, issued) == jwt_encode(RefreshClaims(sub, issued))

\* jwt.decode with SECRET_KEY at time t: the payload, or the exception for
\* a bad signature or a passed expiry.
jwt_decode(token, t) ==
    IF ~Issued[token].signed
    THEN [err |-> "JWTError", payload |-> Issued[token].claims]
    ELSE IF Issued[token].claims.exp < t
    THEN [err |-> "ExpiredSignatureError", payload |-> Issued[token].claims]
    ELSE [err |-> None, payload |-> Issued[token].claims]

\* The exception classes of jose that derive from JWTError.
\* Only the base class instance is caught.
IsJWTErrorExact(err) == err = "JWTError"

IsJWTError(err) == err \in {"JWTError", "ExpiredSignatureError"}

(* ----------------------------- denylist -------------------------------- *)
\* The token_blacklist table is a set of rows [token, expires_at].

\* crud_token_blacklist.exists(db, token=token)
crud_token_blacklist_exists(rows, token) ==
    \E row \in rows : row.token = token

\* An insert that refuses a token that has a row.
crud_token_blacklist_insert(rows, token, expires_at) ==
    IF crud_token_blacklist_exists(rows, token)
    THEN [rows |-> rows, raised |-> "IntegrityError"]
    ELSE [rows |-> rows \cup {[token |-> token, expires_at |-> expires_at]},
          raised |-> None]

\* crud_token_blacklist.create(db, object=TokenBlacklistCreate(...)): the
\* idempotent insert of the denylist; a token that has a row keeps it.
crud_token_blacklist_create(rows, token, expires_at) ==
    IF crud_token_blacklist_exists(rows, token)
    THEN [rows |-> rows, raised |-> None]
    ELSE [rows |-> rows \cup {[token |-> token, expires_at |-> expires_at]},
          raised |-> None]

\* verify_token without the comparison of the token's type.
verify_token_any_type(token, expected_token_type, rows, t) ==
    IF crud_token_blacklist_exists(rows, token)
    THEN [data |-> None, decoded |-> FALSE, raised |-> None]
    ELSE LET d == jwt_decode(token, t) IN
         IF d.err # None
         THEN [data |-> None, decoded |-> TRUE,
               raised |-> IF IsJWTError(d.err) THEN None ELSE d.err]
         ELSE IF d.payload.sub = None
              THEN [data |-> None, decoded |-> TRUE, raised |-> None]
              ELSE [data |-> d.payload.sub, decoded |-> TRUE, raised |-> None]

(* ------------------------- token verification -------------------------- *)
\* A verification that goes to jwt.decode without asking the denylist.
verify_token_decode_only(token, expected_token_type, rows, t) ==
    LET d == jwt_decode(token, t) IN
         IF d.err # None
         THEN [data |-> None, decoded |-> TRUE,
               raised |-> IF IsJWTError(d.err) THEN None ELSE d.err]
         ELSE IF d.payload.sub = None \/ d.payload.token_type # expected_token_type
              THEN [data |-> None, decoded |-> TRUE, raised |-> None]
              ELSE [data |-> d.payload.sub, decoded |-> TRUE, raised |-> None]

\* verify_token: data is the subject of TokenData or None; decoded tells
\* whether jwt.decode was called; raised is the exception that leaves the
\* function, if any.
verify_token(token, expected_token_type, rows, t) ==
    IF crud_token_blacklist_exists(rows, token)
    THEN [data |-> None, decoded |-> FALSE, raised |-> None]
    ELSE LET d == jwt_decode(token, t) IN
         IF d.err # None
         THEN [data |-> None, decoded |-> TRUE,
               raised |-> IF IsJWTError(d.err) THEN None ELSE d.err]
         ELSE IF d.payload.sub = None \/ d.payload.token_type # expected_token_type
              THEN [data |-> None, decoded |-> TRUE, raised |-> None]
              ELSE [data |-> d.payload.sub, decoded |-> TRUE, raised |-> None]

(* -------------------------- identity lookup ---------------------------- *)
\* The primary key of the row of user u.
UserId(u) == IF u = "alice" THEN "uuid-alice" ELSE "uuid-bob"

\* The dict crud_users.get returns for the row of user u: one key per column.
UserDict(u) ==
    [id |-> UserId(u), name |-> u, username |-> u, email |-> Email(u),
     hashed_password |-> "hash", profile_image_url |-> "url",
     created_at |-> 0, updated_at |-> 0, deleted_at |-> None, is_deleted |-> FALSE]

\* crud_users.get(db, <by>=value[, is_deleted=False]): the username of the
\* matching row, or None. tbl maps each username to "active", "deleted"
\* (soft-deleted) or "absent" (no row).
crud_users_get(tbl, by, value, only_live) ==
    LET m == { u \in UserNames :
                 /\ tbl[u] # "absent"
                 /\ IF by = "email" THEN Email(u) = value ELSE u = value
                 /\ only_live => tbl[u] = "active" }
    IN IF m = {} THEN None ELSE CHOOSE u \in m : TRUE

\* The lookup of get_current_user with is_deleted=False left out.
LookupSubjectAnyRow(tbl, sub) ==
    IF Contains_at(sub)
    THEN crud_users_get(tbl, "email", sub, FALSE)
    ELSE crud_users_get(tbl, "username", sub, FALSE)

\* get_current_user, after verify_token gave a subject: the lookup by email
\* when the subject holds an "@", by username otherwise.
LookupSubject(tbl, sub) ==
    IF Contains_at(sub)
    THEN crud_users_get(tbl, "email", sub, TRUE)
    ELSE crud_users_get(tbl, "username", sub, TRUE)

\* The raise of line 39 left out: the function gives what the lookup gave.
CurrentUserOrNone(user) == user

\* get_current_user, lines 36-39: the user, or the exception raised.
CurrentUserOrRaise(user) == IF user # None THEN user ELSE "UnauthorizedException"

\* get_current_user as one evaluation: verify_token, then the lookup.
get_current_user(token, rows, tbl, t) ==
    LET token_data == verify_token(token, "access", rows, t) IN
    IF token_data.data = None THEN "UnauthorizedException"
    ELSE CurrentUserOrRaise(LookupSubject(tbl, token_data.data))

\* authenticate_user: the user, or False.
authenticate_user(tbl, username_or_email, password) ==
    LET db_user == IF Contains_at(username_or_email)
                   THEN crud_users_get(tbl, "email", username_or_email, TRUE)
                   ELSE crud_users_get(tbl, "username", username_or_email, TRUE)
    IN IF db_user = None THEN "False"
       ELSE IF ~verify_password(password, UserDict(db_user).hashed_password) THEN "False"
       ELSE db_user

(* --------------------------- denylisting ------------------------------- *)
\* A denylisting that decodes the token and stores nothing.
blacklist_skip(rows, token, t) ==
    LET d == jwt_decode(token, t) IN
    IF d.err # None THEN [rows |-> rows, raised |-> d.err]
    ELSE [rows |-> rows, raised |-> None]

\* A denylisting that keeps only the row it writes.
blacklist_overwrite(rows, token, t) ==
    LET d == jwt_decode(token, t) IN
    IF d.err # None THEN [rows |-> rows, raised |-> d.err]
    ELSE [rows |-> {[token |-> token, expires_at |-> d.payload.exp]},
          raised |-> None]

\* blacklist_tokens, lines 125-129: one turn of the loop. The decode may
\* raise; a payload with an "exp" gives a denylist row.
blacklist_tokens_turn(rows, token, t) ==
    LET d == jwt_decode(token, t) IN
    IF d.err # None THEN [rows |-> rows, raised |-> d.err]
    ELSE IF "exp" \in DOMAIN d.payload
    THEN crud_token_blacklist_create(rows, token, d.payload.exp)
    ELSE [rows |-> rows, raised |-> None]

\* blacklist_token, lines 132-137.
blacklist_token(rows, token, t) ==
    LET d == jwt_decode(token, t) IN
    IF d.err # None THEN [rows |-> rows, raised |-> d.err]
    ELSE IF "exp" \in DOMAIN d.payload
    THEN crud_token_blacklist_create(rows, token, d.payload.exp)
    ELSE [rows |-> rows, raised |-> None]

(* --------------------------- rate limiting ----------------------------- *)
Paths == {"/posts/", "/users"}
Clients == {"10.0.0.1", None}

\* sanitize_path: the normalized path that keys rules and counters.
sanitize_path(path) == IF path = "/posts/" THEN "posts" ELSE "users"

window_id(t, period) == t \div period

CounterKey(user_id, path, period, t) ==
    [user_id |-> user_id, path |-> path, window |-> window_id(t, period)]

\* rate_limiter.is_rate_limited: one atomic increment of the counter of
\* (user_id, path, window), created with an expiry of `period` seconds;
\* limited iff the value after the increment exceeds the limit.
is_rate_limited(store, user_id, path, limit, period, t) ==
    LET key == CounterKey(user_id, path, period, t)
        new == IF key \in DOMAIN store THEN store[key].value + 1 ELSE 1
        entry == IF key \in DOMAIN store
                 THEN [store[key] EXCEPT !.value = new]
                 ELSE [value |-> 1, expire_at |-> t + period]
    IN [store |-> [k \in DOMAIN store \cup {key} |->
                      IF k = key THEN entry ELSE store[k]],
        key |-> key, value |-> new, limited |-> new > limit]

\* A rate limiter that reports a request as limited when it cannot reach
\* the store.
is_rate_limited_fail_closed(store, user_id, path, limit, period, t) ==
    [store |-> store, key |-> CounterKey(user_id, path, period, t),
     value |-> 0, limited |-> TRUE]

\* rate_limiter.is_rate_limited while the store cannot be reached: nothing
\* is counted and the request is reported as not limited.
is_rate_limited_unreachable(store, user_id, path, limit, period, t) ==
    [store |-> store, key |-> CounterKey(user_id, path, period, t),
     value |-> 0, limited |-> FALSE]

\* The tier and rate-limit tables.
TierRows == { [id |-> 1, name |-> "free"] }
RateLimitRows == { [tier_id |-> 1, path |-> "posts", limit |-> 1,
                    period |-> DEFAULT_RATE_LIMIT_PERIOD] }

crud_tiers_get(id) ==
    IF \E row \in TierRows : row.id = id
    THEN CHOOSE row \in TierRows : row.id = id ELSE None

crud_rate_limits_get(tier_id, path) ==
    IF \E row \in RateLimitRows : row.tier_id = tier_id /\ row.path = path
    THEN CHOOSE row \in RateLimitRows : row.tier_id = tier_id /\ row.path = path
    ELSE None

\* The anonymous branch with the sentinel in the place of the address.
ResolveQuotaUnknown(user, path, client, st) ==
    IF user # None
    THEN [err |-> "KeyError", branch |-> "user", user_id |-> None,
          limit |-> 0, period |-> 0]
    ELSE [err |-> None, branch |-> "anonymous", user_id |-> "unknown",
          limit |-> st.DEFAULT_RATE_LIMIT_LIMIT,
          period |-> st.DEFAULT_RATE_LIMIT_PERIOD]

\* rate_limiter_dependency, lines 81-102: the limiting key and the quota of a
\* request, or the exception the lookup of a missing dict key raises.
ResolveQuota(user, path, client, st) ==
    IF user # None
    THEN IF ~({"id", "tier_id"} \subseteq DOMAIN UserDict(user))
         THEN [err |-> "KeyError", branch |-> "user", user_id |-> None,
               limit |-> 0, period |-> 0]
         ELSE LET tier == crud_tiers_get(UserDict(user).tier_id) IN
              IF tier # None
              THEN LET rate_limit == crud_rate_limits_get(tier.id, path) IN
                   IF rate_limit # None
                   THEN [err |-> None, branch |-> "rule",
                         user_id |-> UserDict(user).id,
                         limit |-> rate_limit.limit, period |-> rate_limit.period]
                   ELSE [err |-> None, branch |-> "no_rule",
                         user_id |-> UserDict(user).id,
                         limit |-> st.DEFAULT_RATE_LIMIT_LIMIT,
                         period |-> st.DEFAULT_RATE_LIMIT_PERIOD]
              ELSE [err |-> None, branch |-> "no_tier",
                    user_id |-> UserDict(user).id,
                    limit |-> st.DEFAULT_RATE_LIMIT_LIMIT,
                    period |-> st.DEFAULT_RATE_LIMIT_PERIOD]
    ELSE [err |-> None, branch |-> "anonymous",
          user_id |-> IF client # None THEN client ELSE "unknown",
          limit |-> st.DEFAULT_RATE_LIMIT_LIMIT,
          period |-> st.DEFAULT_RATE_LIMIT_PERIOD]

(* ------------------------------- state --------------------------------- *)
VARIABLES
    now,                      \* the clock, in seconds
    settings,                 \* DefaultRateLimitSettings as loaded at start
    lifespan_pc,              \* position of lifespan()
    initialization_complete,  \* app.state.initialization_complete: None while
                              \* the attribute is not there, else the Event's
                              \* flag, "clear" or "set"
    users,                    \* users table: username -> "active" | "deleted" | "absent"
    token_blacklist,          \* token_blacklist table: set of rows
    redis,                    \* rate-limit store: counter key -> [value, expire_at]
    req,                      \* the requests in flight at the gate
    ep,                       \* the endpoint call in flight
    calls,                    \* endpoint calls started so far
    decided,                  \* per counter key, the gate's decisions so far
    logged_out                \* the (access, refresh) pairs of successful logouts

vars == <<now, settings, lifespan_pc, initialization_complete, users,
          token_blacklist, redis, req, ep, calls, decided, logged_out>>

\* The quota and the counter key of a request that has none yet.
NoQuota == [err |-> None, branch |-> None, user_id |-> None, limit |-> 0, period |-> 0]

NoKey == [user_id |-> None, path |-> None, window |-> 0]

IdleRequest ==
    [pc |-> "idle", token |-> None, path |-> None, client |-> None,
     user |-> None, quota |-> NoQuota, key |-> NoKey, count |-> 0,
     is_limited |-> FALSE, outcome |-> None]

\* A request that has been answered: who it was served as, and how it ended.
Done(user, outcome) ==
    [IdleRequest EXCEPT !.pc = "done", !.user = user, !.outcome = outcome]

IdleCall ==
    [pc |-> "idle", op |-> None, token |-> None, refresh_token |-> None,
     username |-> None, password |-> None, sub |-> None,
     current_user |-> None, result |-> None]

\* Values of the Authorization header.
NoAuthorization == [scheme |-> None, value |-> None]

Authorizations(tokens) ==
    {NoAuthorization} \cup [scheme : {"Bearer", "Basic"}, value : tokens \cup {""}]

InitWith(st) ==
    /\ now = 0
    /\ settings \in st
    /\ lifespan_pc = "not_started"
    /\ initialization_complete = None
    /\ users = [u \in UserNames |-> "active"]
    /\ token_blacklist = {}
    /\ redis = <<>>
    /\ req = [r \in Requests |-> IdleRequest]
    /\ ep = IdleCall
    /\ calls = 0
    /\ decided = <<>>
    /\ logged_out = {}

(* ------------------------------ lifespan ------------------------------- *)
\* lifespan, lines 101-104: the Event is created and published.
LifespanEnter ==
    /\ lifespan_pc = "not_started"
    /\ lifespan_pc' = "startup"
    /\ initialization_complete' = "clear"
    /\ UNCHANGED <<now, settings, users, token_blacklist, redis,
                   req, ep, calls, decided, logged_out>>

\* lifespan, lines 106-117: the pools and the tables are created.
LifespanStartup ==
    /\ lifespan_pc = "startup"
    /\ lifespan_pc' = "created"
    /\ UNCHANGED <<now, settings, initialization_complete, users,
                   token_blacklist, redis, req, ep, calls, decided,
                   logged_out>>

\* lifespan going on to serve without setting the Event.
LifespanSetSkipped ==
    /\ lifespan_pc = "created"
    /\ lifespan_pc' = "serving"
    /\ UNCHANGED <<now, settings, initialization_complete, users, token_blacklist,
                   redis, req, ep, calls, decided, logged_out>>

\* lifespan, line 119: initialization_complete.set().
LifespanSet ==
    /\ lifespan_pc = "created"
    /\ lifespan_pc' = "serving"
    /\ initialization_complete' = "set"
    /\ UNCHANGED <<now, settings, users, token_blacklist, redis,
                   req, ep, calls, decided, logged_out>>

\* The counter keys of the requests that have counted and not yet decided.
PendingKeys == { req[r].key : r \in {x \in Requests : req[x].pc = "decide"} }

(* ------------------------------- clock --------------------------------- *)
\* Time passes; the store drops the counters whose expiry has come.
Tick ==
    /\ now < MaxTicks * TimeStep
    /\ now' = now + TimeStep
    /\ redis' = [k \in {k \in DOMAIN redis : redis[k].expire_at > now'} |-> redis[k]]
    /\ decided' = [k \in DOMAIN decided \cap (DOMAIN redis' \cup PendingKeys) |->
                     decided[k]]
    /\ UNCHANGED <<settings, lifespan_pc, initialization_complete, users,
                   token_blacklist, req, ep, calls, logged_out>>

(* ----------------------------- the gate -------------------------------- *)
GateUnchanged ==
    UNCHANGED <<now, settings, lifespan_pc, initialization_complete, users,
                token_blacklist, ep, calls, logged_out>>

\* get_optional_user, lines 43-50: no header, a scheme other than bearer or
\* an empty value give the anonymous caller at once.
BearerValue(authorization) ==
    IF authorization = NoAuthorization THEN None
    ELSE IF authorization.scheme # "Bearer" \/ authorization.value = "" THEN None
    ELSE authorization.value

\* The exceptions a query of the database raises when the database fails.
DbFaults == {"OperationalError"}

\* fastcrud's UnauthorizedException is an HTTPException with status 401.
IsHTTPException(raised) == raised \in {"UnauthorizedException", "ForbiddenException"}

\* A handler that lets everything but an HTTPException through.
get_optional_user_except_http(raised) ==
    IF IsHTTPException(raised) THEN None ELSE raised

\* get_optional_user, lines 58-65: what the function gives when `raised`
\* leaves its try block: None from both handlers.
get_optional_user_except(raised) ==
    IF IsHTTPException(raised) THEN None ELSE None

\* get_optional_user as one evaluation, lines 43-65: the user, or None for
\* the anonymous caller; the UnauthorizedException of get_current_user is
\* caught.
get_optional_user(authorization, rows, tbl, t) ==
    LET token_value == BearerValue(authorization) IN
    IF token_value = None THEN None
    ELSE IF verify_token(token_value, "access", rows, t).data = None THEN None
    ELSE LET user == get_current_user(token_value, rows, tbl, t) IN
         IF user = "UnauthorizedException"
         THEN get_optional_user_except(user) ELSE user

\* The value of the counter a request with this quota would increment now.
Counted(quota, path) ==
    LET key == CounterKey(quota.user_id, path, quota.period, now) IN
    IF key \in DOMAIN redis THEN redis[key].value ELSE 0

\* A request arrives on a free slot: its dependencies are resolved,
\* get_optional_user first.
ReqStart(r, authorization, path, client) ==
    /\ req[r].pc \in {"idle", "done"}
    /\ Counted(ResolveQuota(None, sanitize_path(path), client, settings),
               sanitize_path(path)) < settings.DEFAULT_RATE_LIMIT_LIMIT + MaxOver
    /\ LET token == BearerValue(authorization) IN
       req' = [req EXCEPT ![r] =
                 [IdleRequest EXCEPT
                    !.pc = IF token = None THEN "wait" ELSE "opt_verify",
                    !.token = token, !.path = path, !.client = client]]
    /\ UNCHANGED <<redis, decided>>
    /\ GateUnchanged

\* The request after `raised` has left the try block of get_optional_user:
\* anonymous at the gate when the handlers give None, ended otherwise.
OptionalRaised(r, raised) ==
    IF get_optional_user_except(raised) = None
    THEN [req[r] EXCEPT !.pc = "wait", !.user = None]
    ELSE Done(None, raised)

\* get_optional_user, lines 52-54; the denylist query may fail.
OptVerify(r) ==
    /\ req[r].pc = "opt_verify"
    /\ \/ LET token_data == verify_token(req[r].token, "access", token_blacklist, now) IN
          req' = [req EXCEPT ![r].pc =
                    IF token_data.data = None THEN "wait" ELSE "cur_verify"]
       \/ \E fault \in DbFaults : req' = [req EXCEPT ![r] = OptionalRaised(r, fault)]
    /\ UNCHANGED <<redis, decided>>
    /\ GateUnchanged

\* get_current_user going to the lookup of the user without verifying the
\* token again.
CurVerifySkipped(r) ==
    /\ req[r].pc = "cur_verify"
    /\ \/ req' = [req EXCEPT ![r].pc = "cur_lookup"]
       \/ \E fault \in DbFaults : req' = [req EXCEPT ![r] = OptionalRaised(r, fault)]
    /\ UNCHANGED <<redis, decided>>
    /\ GateUnchanged

\* get_current_user called from get_optional_user, lines 27-29 and 58-61:
\* the UnauthorizedException is caught and the caller is anonymous.
CurVerify(r) ==
    /\ req[r].pc = "cur_verify"
    /\ \/ LET token_data == verify_token(req[r].token, "access", token_blacklist, now) IN
          req' = [req EXCEPT ![r] =
                    IF token_data.data = None
                    THEN OptionalRaised(r, "UnauthorizedException")
                    ELSE [req[r] EXCEPT !.pc = "cur_lookup"]]
       \/ \E fault \in DbFaults : req' = [req EXCEPT ![r] = OptionalRaised(r, fault)]
    /\ UNCHANGED <<redis, decided>>
    /\ GateUnchanged

\* get_current_user called from get_optional_user, lines 31-39 and 58-61;
\* the query of the users table may fail.
CurLookup(r) ==
    /\ req[r].pc = "cur_lookup"
    /\ \/ LET user == CurrentUserOrRaise(
                        LookupSubject(users, Issued[req[r].token].claims.sub)) IN
          req' = [req EXCEPT ![r] =
                    IF user = "UnauthorizedException"
                    THEN OptionalRaised(r, user)
                    ELSE [req[r] EXCEPT !.pc = "wait", !.user = user]]
       \/ \E fault \in DbFaults : req' = [req EXCEPT ![r] = OptionalRaised(r, fault)]
    /\ UNCHANGED <<redis, decided>>
    /\ GateUnchanged

\* The wait of lines 78-79 left out.
BarrierIgnored == TRUE

\* rate_limiter_dependency, lines 78-79: the gate waits only when the
\* application state holds the Event and the Event is not set.
BarrierOpen == initialization_complete = None \/ initialization_complete = "set"

\* rate_limiter_dependency, lines 78-102.
GateResolve(r) ==
    /\ req[r].pc = "wait"
    /\ BarrierOpen
    /\ LET quota == ResolveQuota(req[r].user, sanitize_path(req[r].path),
                                 req[r].client, settings) IN
       req' = [req EXCEPT ![r] =
                 IF quota.err # None THEN Done(req[r].user, quota.err)
                 ELSE [req[r] EXCEPT !.quota = quota, !.pc = "count"]]
    /\ UNCHANGED <<redis, decided>>
    /\ GateUnchanged

\* The call of line 104 with limit and period in each other's place.
RateLimiterCallSwapped(store, quota, path, t) ==
    is_rate_limited(store, quota.user_id, path, quota.period, quota.limit, t)

\* The call of line 104 with one path for every request.
RateLimiterCallOnePath(store, quota, path, t) ==
    is_rate_limited(store, quota.user_id, "posts", quota.limit, quota.period, t)

\* rate_limiter_dependency, line 104: the call of the rate limiter.
RateLimiterCall(store, quota, path, t) ==
    is_rate_limited(store, quota.user_id, path, quota.limit, quota.period, t)

\* The call of line 104 with the path of the request as it came in.
GateCountRawPath(r) ==
    /\ req[r].pc = "count"
    /\ LET res == RateLimiterCall(redis, req[r].quota, req[r].path, now) IN
       /\ redis' = res.store
       /\ req' = [req EXCEPT ![r].pc = "decide", ![r].count = res.value,
                             ![r].is_limited = res.limited, ![r].key = res.key]
    /\ UNCHANGED decided
    /\ GateUnchanged

\* rate_limiter_dependency, line 104 with the path of line 79: the counter
\* of the request is incremented.
GateCount(r) ==
    /\ req[r].pc = "count"
    /\ LET res == RateLimiterCall(redis, req[r].quota, sanitize_path(req[r].path), now) IN
       /\ redis' = res.store
       /\ req' = [req EXCEPT ![r].pc = "decide", ![r].count = res.value,
                             ![r].is_limited = res.limited, ![r].key = res.key]
    /\ UNCHANGED decided
    /\ GateUnchanged

\* rate_limiter_dependency, line 104, while the store cannot be reached.
GateCountUnreachable(r) ==
    /\ req[r].pc = "count"
    /\ LET res == is_rate_limited_unreachable(redis, req[r].quota.user_id,
                      sanitize_path(req[r].path), req[r].quota.limit,
                      req[r].quota.period, now) IN
       req' = [req EXCEPT ![r].pc = "decide", ![r].count = res.value,
                          ![r].is_limited = res.limited, ![r].key = res.key]
    /\ UNCHANGED <<redis, decided>>
    /\ GateUnchanged

\* The raise of line 106 left out.
GateOutcomeNeverRaises(is_limited) == "allowed"

\* The condition of line 105 inverted.
GateOutcomeInverted(is_limited) ==
    IF is_limited THEN "allowed" ELSE "RateLimitException"

\* rate_limiter_dependency, lines 105-106.
GateOutcome(is_limited) == IF is_limited THEN "RateLimitException" ELSE "allowed"

\* A gate that takes its increment back when it rejects the request.
GateDecideRollback(r) ==
    /\ req[r].pc = "decide"
    /\ LET outcome == GateOutcome(req[r].is_limited)
           key == req[r].key
       IN /\ req' = [req EXCEPT ![r] = Done(req[r].user, outcome)]
          /\ redis' = IF outcome = "allowed" \/ key \notin DOMAIN redis THEN redis
                       ELSE [redis EXCEPT ![key].value = @ - 1]
    /\ UNCHANGED decided
    /\ GateUnchanged

GateDecide(r) ==
    /\ req[r].pc = "decide"
    /\ LET outcome == GateOutcome(req[r].is_limited)
           key == req[r].key
           old == IF key \in DOMAIN decided THEN decided[key]
                  ELSE [allowed |-> 0, rejected |-> 0]
           new == IF outcome = "allowed"
                  THEN [old EXCEPT !.allowed = @ + 1]
                  ELSE [old EXCEPT !.rejected = @ + 1]
       IN /\ req' = [req EXCEPT ![r] = Done(req[r].user, outcome)]
          /\ decided' = [k \in DOMAIN decided \cup {key} |->
                           IF k = key THEN new ELSE decided[k]]
    /\ UNCHANGED redis
    /\ GateUnchanged

\* The caller goes away while its request is in the gate: the request is
\* cancelled where it stands and nothing is undone.
GateAbort(r) ==
    /\ req[r].pc \in {"opt_verify", "cur_verify", "cur_lookup", "wait", "count", "decide"}
    /\ req' = [req EXCEPT ![r] = Done(req[r].user, "CancelledError")]
    /\ UNCHANGED <<redis, decided>>
    /\ GateUnchanged

GateStep(r) ==
    \/ OptVerify(r)
    \/ CurVerify(r)
    \/ CurLookup(r)
    \/ GateResolve(r)
    \/ GateCount(r)
    \/ GateDecide(r)

Lifespan == LifespanEnter \/ LifespanStartup \/ LifespanSet

(* --------------------------- the endpoints ----------------------------- *)
EndpointUnchanged == UNCHANGED <<now, settings, lifespan_pc, initialization_complete,
                                 redis, req, decided>>

\* An endpoint call that has been answered.
Answered(op, token, current_user, result) ==
    [IdleCall EXCEPT !.pc = "done", !.op = op, !.token = token,
                     !.current_user = current_user, !.result = result]

\* oauth2_scheme (security.py, line 21): OAuth2PasswordBearer raises an
\* HTTPException with status 401 for a request without a bearer token.
NotAuthenticated == "HTTPException(401)"

\* A call arrives: logout starts in its handler, authenticate_user in its
\* lookup, the others in their get_current_user dependency; oauth2_scheme
\* answers a call that needs a token and has none.
Call(op, token, refresh_token, username, password) ==
    /\ ep.pc \in {"idle", "done"}
    /\ calls < MaxCalls
    /\ calls' = calls + 1
    /\ ep' = IF op # "authenticate_user" /\ token = None
             THEN Answered(op, None, None, NotAuthenticated)
             ELSE [IdleCall EXCEPT
                     !.pc = CASE op = "logout" -> "blacklist_access"
                              [] op = "authenticate_user" -> "authenticate"
                              [] OTHER -> "auth_verify",
                     !.op = op, !.token = token, !.refresh_token = refresh_token,
                     !.username = username, !.password = password]
    /\ UNCHANGED <<users, token_blacklist, logged_out>>
    /\ EndpointUnchanged

\* logout, lines 20-29, and blacklist_tokens, first turn of the loop: a
\* JWTError becomes UnauthorizedException("Invalid token.").
LogoutError(raised) == IF IsJWTError(raised) THEN "UnauthorizedException" ELSE raised

LogoutAccess ==
    /\ ep.pc = "blacklist_access"
    /\ LET res == blacklist_tokens_turn(token_blacklist, ep.token, now) IN
       /\ token_blacklist' = res.rows
       /\ ep' = IF res.raised # None
                THEN Answered(ep.op, ep.token, None, LogoutError(res.raised))
                ELSE [ep EXCEPT !.pc = "blacklist_refresh"]
    /\ UNCHANGED <<users, calls, logged_out>>
    /\ EndpointUnchanged

\* The second turn with the row of the first turn taken back on an error.
LogoutRefreshUndo ==
    /\ ep.pc = "blacklist_refresh"
    /\ LET res == blacklist_tokens_turn(token_blacklist, ep.refresh_token, now) IN
       /\ token_blacklist' = IF res.raised # None
                              THEN { row \in token_blacklist : row.token # ep.token }
                              ELSE res.rows
       /\ ep' = IF res.raised # None
                THEN Answered(ep.op, ep.token, None, LogoutError(res.raised))
                ELSE Answered(ep.op, ep.token, None, "ok")
       /\ logged_out' = IF res.raised # None THEN logged_out
                        ELSE logged_out \cup {<<ep.token, ep.refresh_token>>}
    /\ UNCHANGED <<users, calls>>
    /\ EndpointUnchanged

\* blacklist_tokens, second turn of the loop, and the return of logout.
LogoutRefresh ==
    /\ ep.pc = "blacklist_refresh"
    /\ LET res == blacklist_tokens_turn(token_blacklist, ep.refresh_token, now) IN
       /\ token_blacklist' = res.rows
       /\ ep' = IF res.raised # None
                THEN Answered(ep.op, ep.token, None, LogoutError(res.raised))
                ELSE Answered(ep.op, ep.token, None, "ok")
       /\ logged_out' = IF res.raised # None THEN logged_out
                        ELSE logged_out \cup {<<ep.token, ep.refresh_token>>}
    /\ UNCHANGED <<users, calls>>
    /\ EndpointUnchanged

\* get_current_user, lines 27-29; a failure of the denylist query leaves
\* the dependency as it was raised.
AuthVerify ==
    /\ ep.pc = "auth_verify"
    /\ \/ LET token_data == verify_token(ep.token, "access", token_blacklist, now) IN
          ep' = IF token_data.data = None
                THEN Answered(ep.op, ep.token, None, "UnauthorizedException")
                ELSE [ep EXCEPT !.pc = "auth_lookup", !.sub = token_data.data]
       \/ \E fault \in DbFaults : ep' = Answered(ep.op, ep.token, None, fault)
    /\ UNCHANGED <<users, token_blacklist, calls, logged_out>>
    /\ EndpointUnchanged

\* get_current_superuser, lines 69-72, and behind it erase_db_user, lines
\* 132-138: the answer, the users table and the denylist they leave.
EraseDbUser(current_user, username, token, tbl, rows, t) ==
    IF "is_superuser" \notin DOMAIN UserDict(current_user)
    THEN [result |-> "KeyError", users |-> tbl, rows |-> rows]
    ELSE IF ~UserDict(current_user).is_superuser
    THEN [result |-> "ForbiddenException", users |-> tbl, rows |-> rows]
    ELSE IF crud_users_get(tbl, "username", username, FALSE) = None
    THEN [result |-> "NotFoundException", users |-> tbl, rows |-> rows]
    ELSE LET res == blacklist_token(rows, token, t) IN
         [result |-> IF res.raised # None THEN res.raised ELSE "ok",
          users |-> [tbl EXCEPT ![username] = "absent"], rows |-> res.rows]

\* get_current_user, lines 31-39, and what follows it in the endpoint:
\* read_users_me returns, erase_db_user goes through get_current_superuser,
\* erase_user goes on to its handler.
AuthLookup ==
    /\ ep.pc = "auth_lookup"
    /\ \/ LET user == CurrentUserOrRaise(LookupSubject(users, ep.sub)) IN
          IF user = "UnauthorizedException"
          THEN /\ ep' = Answered(ep.op, ep.token, None, user)
               /\ UNCHANGED <<users, token_blacklist>>
          ELSE IF ep.op = "read_users_me"
          THEN /\ ep' = Answered(ep.op, ep.token, user, "ok")
               /\ UNCHANGED <<users, token_blacklist>>
          ELSE IF ep.op = "erase_db_user"
          THEN LET res == EraseDbUser(user, ep.username, ep.token, users,
                                      token_blacklist, now) IN
               /\ ep' = Answered(ep.op, ep.token, user, res.result)
               /\ users' = res.users
               /\ token_blacklist' = res.rows
          ELSE /\ ep' = [ep EXCEPT !.pc = "erase_get", !.current_user = user]
               /\ UNCHANGED <<users, token_blacklist>>
       \/ \E fault \in DbFaults :
             /\ ep' = Answered(ep.op, ep.token, None, fault)
             /\ UNCHANGED <<users, token_blacklist>>
    /\ UNCHANGED <<calls, logged_out>>
    /\ EndpointUnchanged

\* erase_user, lines 113-118.
EraseUserGet ==
    /\ ep.pc = "erase_get"
    /\ ep' = IF crud_users_get(users, "username", ep.username, FALSE) = None
             THEN Answered(ep.op, ep.token, ep.current_user, "NotFoundException")
             ELSE IF ep.username # UserDict(ep.current_user).username
             THEN Answered(ep.op, ep.token, ep.current_user, "ForbiddenException")
             ELSE [ep EXCEPT !.pc = "erase_delete"]
    /\ UNCHANGED <<users, token_blacklist, calls, logged_out>>
    /\ EndpointUnchanged

\* erase_user, line 120: crud_users.delete marks the row as deleted.
EraseUserDelete ==
    /\ ep.pc = "erase_delete"
    /\ users' = [users EXCEPT ![ep.username] = "deleted"]
    /\ ep' = [ep EXCEPT !.pc = "erase_blacklist"]
    /\ UNCHANGED <<token_blacklist, calls, logged_out>>
    /\ EndpointUnchanged

\* erase_user, lines 121-122.
EraseUserBlacklist ==
    /\ ep.pc = "erase_blacklist"
    /\ LET res == blacklist_token(token_blacklist, ep.token, now) IN
       /\ token_blacklist' = res.rows
       /\ ep' = Answered(ep.op, ep.token, ep.current_user,
                         IF res.raised # None THEN res.raised ELSE "ok")
    /\ UNCHANGED <<users, calls, logged_out>>
    /\ EndpointUnchanged

\* authenticate_user, lines 40-52.
Authenticate ==
    /\ ep.pc = "authenticate"
    /\ ep' = Answered(ep.op, None, None,
                      authenticate_user(users, ep.username, ep.password))
    /\ UNCHANGED <<users, token_blacklist, calls, logged_out>>
    /\ EndpointUnchanged

EndpointStep ==
    \/ LogoutAccess
    \/ LogoutRefresh
    \/ AuthVerify
    \/ AuthLookup
    \/ EraseUserGet
    \/ EraseUserDelete
    \/ EraseUserBlacklist
    \/ Authenticate

(* ------------------------ the gate under load -------------------------- *)
GatePaths == {"/posts/"}
GateTokens == { create_access_token("alice", 0) }

\* The service has started: lifespan has set the Event.
Serving(st) ==
    /\ InitWith(st)!1 /\ InitWith(st)!2
    /\ lifespan_pc = "serving"
    /\ initialization_complete = "set"
    /\ InitWith(st)!5 /\ InitWith(st)!6 /\ InitWith(st)!7 /\ InitWith(st)!8
    /\ InitWith(st)!9 /\ InitWith(st)!10 /\ InitWith(st)!11 /\ InitWith(st)!12

\* A burst: every slot takes one request, all at the same instant.
InitGate == Serving(TightSettings)

NextGate ==
    \E r \in Requests :
       \/ \E a \in Authorizations(GateTokens), p \in GatePaths, c \in Clients :
            req[r].pc = "idle" /\ ReqStart(r, a, p, c)
       \/ GateStep(r)

SpecGate == InitGate /\ [][NextGate]_vars

(* ----------------------- one caller over time -------------------------- *)
InitWindow == Serving(TightSettings \cup {ShippedSettings})

NextWindow ==
    \/ Tick
    \/ \E a \in Authorizations(GateTokens), p \in GatePaths, c \in Clients \ {None} :
         ReqStart(1, a, p, c)
    \/ GateStep(1)

SpecWindow ==
    InitWindow /\ [][NextWindow]_vars

(* ------------------- tokens, denylist and identity --------------------- *)
\* The bearer tokens of the one request that passes the gate meanwhile.
AuthTokens == { create_access_token("alice", 0), create_access_token("bob@x", 0) }

\* The calls the clients make: logout with an access and a refresh token,
\* the endpoints behind get_current_user with a bearer token, and login.
AuthCalls ==
    [op : {"logout"}, token : {"a0", "a1", "f1"}, refresh_token : {"r0", "f1"},
     username : {None}, password : {None}]
    \cup [op : {"erase_user"}, token : {"a0", "a1", "b0"}, refresh_token : {None},
          username : {"alice", "ghost"}, password : {None}]
    \cup [op : {"erase_db_user"}, token : {"a0"}, refresh_token : {None},
          username : {"bob"}, password : {None}]
    \cup [op : {"read_users_me"}, token : Tokens \cup {None}, refresh_token : {None},
          username : {None}, password : {None}]
    \cup [op : {"authenticate_user"}, token : {None}, refresh_token : {None},
          username : {"alice", "bob@x", "ghost"}, password : Passwords]

InitAuth == Serving(TightSettings)

NextAuth ==
    \/ Tick
    \/ \E c \in AuthCalls : Call(c.op, c.token, c.refresh_token, c.username, c.password)
    \/ EndpointStep
    \/ \E a \in Authorizations(AuthTokens), p \in GatePaths, c \in Clients \ {None} :
         req[1].pc = "idle" /\ ReqStart(1, a, p, c)
    \/ GateStep(1)

SpecAuth == InitAuth /\ [][NextAuth]_vars

(* ----------------------- faults of the store --------------------------- *)
\* Two requests of one client, each at some time; the store may be out of
\* reach when the gate calls the rate limiter, and callers may go away.
FaultSlots == {1, 2}

InitFaults == Serving(TightSettings)

NextFaults ==
    \/ Tick
    \/ \E r \in FaultSlots :
          \/ \E a \in Authorizations(GateTokens), p \in Paths, c \in Clients :
               req[r].pc = "idle" /\ ReqStart(r, a, p, c)
          \/ GateStep(r)
          \/ GateCountUnreachable(r)
          \/ GateAbort(r)

SpecFaults == InitFaults /\ [][NextFaults]_vars

(* ---------------------------- startup ---------------------------------- *)
\* Requests reach the application from the moment lifespan has published
\* the Event; each slot takes one request.
InitStartup == InitWith(TightSettings)

NextStartup ==
    \/ Lifespan
    \/ \E r \in Requests :
          \/ \E a \in Authorizations(GateTokens), p \in GatePaths, c \in Clients :
               /\ lifespan_pc # "not_started"
               /\ req[r].pc = "idle"
               /\ ReqStart(r, a, p, c)
          \/ GateStep(r)

SpecStartup == InitStartup /\ [][NextStartup]_vars

(* ------------------------ startup, with fairness ----------------------- *)
\* The slots of the requests that meet the barrier.
BarrierSlots == {1, 2}

\* The application is either about to run lifespan, or it serves without
\* one (lifespan_pc "none"): app.state then never gets the Event.
InitBarrier ==
    /\ InitWith(TightSettings)!1 /\ InitWith(TightSettings)!2
    /\ lifespan_pc \in {"not_started", "none"}
    /\ InitWith(TightSettings)!4 /\ InitWith(TightSettings)!5
    /\ InitWith(TightSettings)!6 /\ InitWith(TightSettings)!7
    /\ InitWith(TightSettings)!8 /\ InitWith(TightSettings)!9
    /\ InitWith(TightSettings)!10 /\ InitWith(TightSettings)!11
    /\ InitWith(TightSettings)!12

\* Each slot takes one request, which arrives while lifespan is between the
\* publication of the Event and its set(), or at an application without
\* lifespan.
NextBarrier ==
    \/ Lifespan
    \/ \E r \in BarrierSlots :
          \/ \E a \in Authorizations(GateTokens), p \in GatePaths, c \in Clients :
               /\ lifespan_pc \in {"startup", "created", "none"}
               /\ req[r].pc = "idle"
               /\ ReqStart(r, a, p, c)
          \/ GateStep(r)

\* The event loop runs every task that is ready: lifespan goes on through
\* its awaits, and a request goes on whenever its next step can be taken;
\* Event.set() wakes every task that waits on the Event.
SpecBarrier ==
    /\ InitBarrier
    /\ [][NextBarrier]_vars
    /\ WF_vars(Lifespan)
    /\ \A r \in BarrierSlots : WF_vars(GateStep(r))

(* ======================= rate limit: properties ======================== *)
Min(a, b) == IF a < b THEN a ELSE b

\* The decisions the gate has taken on counter key k.
Tally(k) == IF k \in DOMAIN decided THEN decided[k] ELSE [allowed |-> 0, rejected |-> 0]

\* The requests that have incremented counter k and are not yet decided.
Pending(k) == { r \in Requests : req[r].pc = "decide" /\ req[r].key = k }

\* C1. Atomicity under concurrency: whatever the interleaving of the
\* requests that share a counter (key, path, window), no two of them are
\* handed the same count, every increment belongs to exactly one request,
\* and once N of them are decided under limit L exactly min(N, L) were
\* allowed and the other N - L were rejected.
C1_AtomicUnderConcurrency ==
    \A k \in DOMAIN redis :
        /\ \A r1, r2 \in Pending(k) : r1 # r2 => req[r1].count # req[r2].count
        /\ Tally(k).allowed + Tally(k).rejected + Cardinality(Pending(k)) = redis[k].value
        /\ Pending(k) = {} =>
              /\ Tally(k).allowed = Min(redis[k].value, settings.DEFAULT_RATE_LIMIT_LIMIT)
              /\ Tally(k).rejected = redis[k].value - Tally(k).allowed

\* Every slot has been answered, all of them counted on one key, and there
\* were more of them than the limit allows.
C1_Witness ==
    /\ \A r \in Requests : req[r].pc = "done"
    /\ \E k \in DOMAIN redis :
          /\ redis[k].value = NumRequests
          /\ NumRequests > settings.DEFAULT_RATE_LIMIT_LIMIT
          /\ Tally(k).allowed = settings.DEFAULT_RATE_LIMIT_LIMIT
          /\ Tally(k).rejected = NumRequests - settings.DEFAULT_RATE_LIMIT_LIMIT

\* C2. Fixed-window boundary: a request is counted in the window
\* floor(now / period) of its (key, path), and the n-th request decided in
\* that window passes iff n <= limit and is rejected with the rate-limit
\* error iff n > limit, whatever the counts of the other windows are.
C2_FixedWindowBoundary ==
    [][ /\ (req[1].pc = "count" /\ req'[1].pc = "decide") =>
             req'[1].key = [user_id |-> req[1].quota.user_id,
                            path |-> sanitize_path(req[1].path),
                            window |-> now \div req[1].quota.period]
        /\ (req[1].pc = "decide" /\ req'[1].pc = "done") =>
             LET n == Tally(req[1].key).allowed + Tally(req[1].key).rejected + 1 IN
             /\ req'[1].outcome = "allowed" <=> n <= req[1].quota.limit
             /\ req'[1].outcome = "RateLimitException" <=> n > req[1].quota.limit ]_vars

\* With the shipped defaults: the previous window ended with 10 requests
\* passed and the 11th rejected, and a request of the next window has passed.
C2_Witness ==
    /\ settings = ShippedSettings
    /\ \E k1, k2 \in DOMAIN redis :
          /\ k1.user_id = k2.user_id /\ k1.path = k2.path
          /\ k2.window = k1.window + 1
          /\ k2.window = now \div DEFAULT_RATE_LIMIT_PERIOD
          /\ Tally(k1).allowed = DEFAULT_RATE_LIMIT_LIMIT
          /\ Tally(k1).rejected >= 1
          /\ Tally(k2).allowed >= 1
          /\ Tally(k2).rejected = 0

\* C3. Every call of the rate limiter adds exactly one to the counter of
\* (key, path, current window) and to no other, creates it with an expiry
\* of `period` seconds when it is absent, and reports limited iff the value
\* after the increment exceeds the limit: a rejected call increments too.
C3_EveryCallIncrements ==
    [][ \A r \in Requests :
          (req[r].pc = "count" /\ req'[r].pc = "decide") =>
             LET q == req[r].quota
                 k == [user_id |-> q.user_id, path |-> sanitize_path(req[r].path),
                       window |-> now \div q.period]
                 old == IF k \in DOMAIN redis THEN redis[k].value ELSE 0
             IN /\ DOMAIN redis' = DOMAIN redis \cup {k}
                /\ redis'[k].value = old + 1
                /\ redis'[k].expire_at =
                      IF k \in DOMAIN redis THEN redis[k].expire_at ELSE now + q.period
                /\ \A j \in DOMAIN redis \ {k} : redis'[j] = redis[j]
                /\ req'[r].count = old + 1
                /\ req'[r].is_limited = (old + 1 > q.limit) ]_vars

\* A call that was already over the limit has incremented the counter again.
C3_Witness ==
    \E r \in Requests :
        /\ req[r].pc = "decide"
        /\ req[r].is_limited
        /\ req[r].count > req[r].quota.limit + 1
        /\ redis[req[r].key].value = req[r].count

\* The bearer header that carries a token.
Bearer(token) == [scheme |-> "Bearer", value |-> token]

\* A token that verifies at this instant when the denylist is left aside.
Sound(token, tokenType) ==
    /\ Issued[token].signed
    /\ Issued[token].claims.exp >= now
    /\ Issued[token].claims.token_type = tokenType
    /\ Issued[token].claims.sub # None

\* C4: verify_token gives None for every token that has a row in the
\* denylist, whatever its signature, expiry and type, and it gives it
\* without having decoded the token: the membership check comes first.
C4_DenylistPrecedence ==
    \A token \in Tokens, tokenType \in TokenType :
       crud_token_blacklist_exists(token_blacklist, token)
         => verify_token(token, tokenType, token_blacklist, now)
              = [data |-> None, decoded |-> FALSE, raised |-> None]

\* A denylisted access token, signed and unexpired, of an active user, has
\* been presented to read_users_me and refused.
C4_Witness ==
    /\ ep.pc = "done" /\ ep.op = "read_users_me"
    /\ crud_token_blacklist_exists(token_blacklist, ep.token)
    /\ Sound(ep.token, "access")
    /\ LookupSubject(users, Issued[ep.token].claims.sub) # None
    /\ ep.result = "UnauthorizedException"

\* C5: after a logout with (T1, T2) has succeeded, T1 and T2 have rows in
\* the denylist; get_current_user raises UnauthorizedException for T1,
\* get_optional_user gives the anonymous caller for it, every call made with
\* T1 afterwards is answered UnauthorizedException (or, when the database
\* fails, with that fault) and never served as a user, and a gate request
\* that bears T1 leaves its verification as the anonymous caller.
C5_LoggedOutState ==
    \A p \in logged_out :
       /\ crud_token_blacklist_exists(token_blacklist, p[1])
       /\ crud_token_blacklist_exists(token_blacklist, p[2])
       /\ get_current_user(p[1], token_blacklist, users, now) = "UnauthorizedException"
       /\ get_optional_user(Bearer(p[1]), token_blacklist, users, now) = None
       /\ (ep.pc = "done" /\ ep.op # "logout" /\ ep.token = p[1])
            => /\ ep.current_user = None
               /\ ep.result \in {"UnauthorizedException"} \cup DbFaults

C5_LoggedOutStep ==
    \A p \in logged_out, r \in Requests :
       (req[r].pc \in {"opt_verify", "cur_verify"} /\ req[r].token = p[1]
          /\ req'[r] # req[r])
         => (req'[r].pc = "wait" /\ req'[r].user = None)

C5_LogoutUnauthenticates == []C5_LoggedOutState /\ [][C5_LoggedOutStep]_vars

\* After a logout with T1, and before the expiry of T1, read_users_me has
\* refused T1 and a gate request bearing T1 waits as the anonymous caller.
C5_Witness ==
    \E p \in logged_out :
       /\ Sound(p[1], "access")
       /\ LookupSubject(users, Issued[p[1]].claims.sub) # None
       /\ ep.pc = "done" /\ ep.op = "read_users_me" /\ ep.token = p[1]
       /\ ep.result = "UnauthorizedException"
       /\ req[1].pc = "wait" /\ req[1].token = p[1] /\ req[1].user = None

\* C6: no step of the program takes away a denylist row whose expiry has
\* not passed: every such row of one state is a row of the next state.
C6_DenylistMonotonic ==
    [][\A row \in token_blacklist :
          row.expires_at >= now' => row \in token_blacklist']_vars

\* erase_user has denylisted its token while the rows of an earlier logout,
\* unexpired, are in the table.
C6_Witness ==
    /\ ep.pc = "done" /\ ep.op = "erase_user" /\ ep.result = "ok"
    /\ \E p \in logged_out :
          /\ p[1] # ep.token
          /\ Issued[p[1]].claims.exp >= now
          /\ crud_token_blacklist_exists(token_blacklist, p[1])
    /\ crud_token_blacklist_exists(token_blacklist, ep.token)

\* The token a denylisting step of the endpoint is about to add.
Adding ==
    CASE ep.pc = "blacklist_access" -> ep.token
      [] ep.pc = "blacklist_refresh" -> ep.refresh_token
      [] ep.pc = "erase_blacklist" -> ep.token
      [] OTHER -> None

C8_VerifyNeverRaises ==
    \A token \in Tokens, tokenType \in TokenType :
       LET token_data == verify_token(token, tokenType, token_blacklist, now) IN
       /\ token_data.raised = None
       /\ token_data.data # None
            <=> (Sound(token, tokenType)
                   /\ ~crud_token_blacklist_exists(token_blacklist, token))
       /\ token_data.data # None => token_data.data = Issued[token].claims.sub

\* read_users_me has refused a signed access token of an active user, with
\* no denylist row, because its expiry has passed, while another token is
\* denylisted.
C8_Witness ==
    /\ ep.pc = "done" /\ ep.op = "read_users_me"
    /\ ep.token # None
    /\ Issued[ep.token].signed
    /\ Issued[ep.token].claims.exp < now
    /\ ~crud_token_blacklist_exists(token_blacklist, ep.token)
    /\ LookupSubject(users, Issued[ep.token].claims.sub) # None
    /\ ep.result = "UnauthorizedException"
    /\ token_blacklist # {}

\* C9: for a soft-deleted user, the lookup by username and by email finds
\* nothing, get_current_user raises for every token of that subject the same
\* UnauthorizedException it raises for a subject with no row, and
\* authenticate_user gives the same False it gives for a name with no row,
\* whatever the password; a gate request whose verified token names the
\* user leaves the lookup as the anonymous caller.
C9_DeletedState ==
    \A u \in UserNames :
       users[u] = "deleted" =>
         /\ \A sub \in {u, Email(u)} :
               /\ LookupSubject(users, sub) = None
               /\ CurrentUserOrRaise(LookupSubject(users, sub))
                    = CurrentUserOrRaise(LookupSubject(users, "ghost"))
               /\ \A password \in Passwords :
                     /\ authenticate_user(users, sub, password) = "False"
                     /\ authenticate_user(users, sub, password)
                          = authenticate_user(users, "ghost", password)
         /\ \A token \in Tokens :
               Issued[token].claims.sub \in {u, Email(u)}
                 => /\ get_current_user(token, token_blacklist, users, now)
                         = "UnauthorizedException"
                    /\ get_optional_user(Bearer(token), token_blacklist, users, now) = None

C9_DeletedStep ==
    \A r \in Requests :
       (req[r].pc = "cur_lookup" /\ req'[r] # req[r]
          /\ \E u \in UserNames :
                users[u] = "deleted" /\ Issued[req[r].token].claims.sub \in {u, Email(u)})
         => (req'[r].pc = "wait" /\ req'[r].user = None)

C9_SoftDeleteExclusion == []C9_DeletedState /\ [][C9_DeletedStep]_vars

\* A gate request bears an access token that verifies, of a user who has
\* been soft-deleted, and waits at the gate as the anonymous caller.
C9_Witness ==
    /\ req[1].pc = "wait" /\ req[1].token # None /\ req[1].user = None
    /\ Sound(req[1].token, "access")
    /\ ~crud_token_blacklist_exists(token_blacklist, req[1].token)
    /\ \E u \in UserNames :
          users[u] = "deleted" /\ Issued[req[1].token].claims.sub \in {u, Email(u)}

\* C10: a request of an authenticated user, who has no tier, leaves the
\* resolution of its quota with the configured default limit and period
\* under the id of the user, and goes on to be counted.
C10_QuotaFallbackChain ==
    [][\A r \in Requests :
          (req[r].pc = "wait" /\ req[r].user # None /\ req'[r] # req[r])
            => /\ req'[r].pc = "count"
               /\ req'[r].quota.err = None
               /\ req'[r].quota.user_id = UserDict(req[r].user).id
               /\ req'[r].quota.limit = settings.DEFAULT_RATE_LIMIT_LIMIT
               /\ req'[r].quota.period = settings.DEFAULT_RATE_LIMIT_PERIOD]_vars

\* The tier the users table is meant to hold for a user: alice is on the
\* free tier, which has a rule for "posts"; the tier_id of bob is that of a
\* tier erase_tier has deleted, which has no row in the tier table.
HasTier(u) == u \in {"alice", "bob"}

AssignedTier(u) == IF u = "alice" THEN 1 ELSE 2

\* The rules of the tier of user u for a normalized path.
AssignedRules(u, path) ==
    IF ~HasTier(u) THEN {}
    ELSE { rule \in RateLimitRows :
             /\ \E row \in TierRows : row.id = AssignedTier(u) /\ rule.tier_id = row.id
             /\ rule.path = path }

\* C11: a request of an authenticated user whose tier has a rule for the
\* normalized path leaves the resolution of its quota with the limit and
\* the period of that rule under the id of the user, and goes on to be
\* counted.
C11_TierRuleEnforced ==
    [][\A r \in Requests :
          (req[r].pc = "wait" /\ req[r].user # None /\ req'[r] # req[r])
            => \A rule \in AssignedRules(req[r].user, sanitize_path(req[r].path)) :
                  /\ req'[r].pc = "count"
                  /\ req'[r].quota.err = None
                  /\ req'[r].quota.branch = "rule"
                  /\ req'[r].quota.user_id = UserDict(req[r].user).id
                  /\ req'[r].quota.limit = rule.limit
                  /\ req'[r].quota.period = rule.period]_vars

\* The limiting key of an anonymous request from this client.
AnonymousKey(client) == IF client # None THEN client ELSE "unknown"

\* C12: a request that resolved to no user leaves the resolution of its
\* quota with the configured default limit and period under the address of
\* its client, or under "unknown" when it has no client; it is counted
\* under that key and ends allowed or rate-limited, never with an error.
C12_AnonymousState ==
    \A r \in Requests :
       /\ (req[r].pc \in {"count", "decide"} /\ req[r].user = None)
            => /\ req[r].quota.user_id = AnonymousKey(req[r].client)
               /\ req[r].quota.user_id = "unknown" <=> req[r].client = None
               /\ req[r].quota.limit = settings.DEFAULT_RATE_LIMIT_LIMIT
               /\ req[r].quota.period = settings.DEFAULT_RATE_LIMIT_PERIOD
       /\ (req[r].pc = "decide" /\ req[r].user = None)
            => req[r].key.user_id = AnonymousKey(req[r].client)
       /\ (req[r].pc = "done" /\ req[r].user = None)
            => req[r].outcome \in {"allowed", "RateLimitException"}

C12_AnonymousStep ==
    \A r \in Requests :
       (req[r].pc = "wait" /\ req[r].user = None /\ req'[r] # req[r])
         => (req'[r].pc = "count" /\ req'[r].quota.err = None)

C12_AnonymousKeying == []C12_AnonymousState /\ [][C12_AnonymousStep]_vars

\* Two anonymous requests have been counted, one under the address of its
\* client and one, without a client, under "unknown".
C12_Witness ==
    \E r1, r2 \in Requests :
       /\ req[r1].pc = "decide" /\ req[r1].user = None
       /\ req[r1].client # None /\ req[r1].key.user_id = req[r1].client
       /\ req[r2].pc = "decide" /\ req[r2].user = None
       /\ req[r2].client = None /\ req[r2].key.user_id = "unknown"

\* The positions of a request that is past the barrier.
PastBarrier == {"count", "decide", "done"}

\* C13: while the Event is there and clear, no request is past the barrier
\* and the counting store is untouched; no step taken then resolves a
\* quota, increments a counter or decides a request.
C13_ClearState ==
    initialization_complete = "clear"
      => /\ \A r \in Requests : req[r].pc \notin PastBarrier
         /\ redis = <<>>
         /\ decided = <<>>

C13_ClearStep ==
    initialization_complete = "clear"
      => /\ redis' = redis
         /\ decided' = decided
         /\ \A r \in Requests : req'[r].pc \notin PastBarrier

C13_StartupOrdering == []C13_ClearState /\ [][C13_ClearStep]_vars

\* Every request is held at the barrier while the pools and the tables have
\* been created and the Event is still clear.
C13_Witness ==
    /\ initialization_complete = "clear"
    /\ lifespan_pc = "created"
    /\ \A r \in Requests : req[r].pc = "wait"

\* C14: while the Event is there and clear, no step of the optional
\* identity resolution of a request is taken: no denylist check, no token
\* verification, no user lookup.
C14_ResolutionAfterBarrier ==
    [][initialization_complete = "clear"
         => \A r \in Requests :
               req[r].pc \in {"opt_verify", "cur_verify", "cur_lookup"}
                 => req'[r] = req[r]]_vars

\* The positions of a request inside get_optional_user.
Resolving == {"opt_verify", "cur_verify", "cur_lookup"}

\* C15: no step of get_optional_user ends the request: a request without a
\* bearer value goes to the gate at once as the anonymous caller; a failed
\* verification, a lookup that raises UnauthorizedException and a failing
\* database query all leave the request at the gate as the anonymous
\* caller; and the anonymous caller goes on to be counted.
C15_OptionalStep ==
    \A r \in Requests :
       /\ (req[r].pc \in {"idle", "done"} /\ req'[r].pc \notin {"idle", "done"})
            => IF req'[r].token = None
               THEN req'[r].pc = "wait" /\ req'[r].user = None
               ELSE req'[r].pc = "opt_verify"
       /\ (req[r].pc \in Resolving /\ req'[r] # req[r])
            => /\ req'[r].pc \in Resolving \cup {"wait"}
               /\ req'[r].outcome = None
               /\ req'[r].user # None
                    => /\ req[r].pc = "cur_lookup"
                       /\ req'[r].user = LookupSubject(users,
                                            Issued[req[r].token].claims.sub)
       /\ (req[r].pc \in {"opt_verify", "cur_verify"} /\ req'[r] # req[r]
             /\ verify_token(req[r].token, "access", token_blacklist, now).data = None)
            => (req'[r].pc = "wait" /\ req'[r].user = None)
       /\ (req[r].pc = "wait" /\ req[r].user = None /\ req'[r] # req[r])
            => (req'[r].pc = "count" /\ req'[r].quota.branch = "anonymous")

C15_OptionalNeverRaises == [][C15_OptionalStep]_vars

\* A request bearing a token that verifies, of an active user, has been left
\* at the gate as the anonymous caller: a fault of the database was
\* swallowed.
C15_Witness ==
    /\ req[1].pc = "count" /\ req[1].token # None /\ req[1].user = None
    /\ Sound(req[1].token, "access")
    /\ ~crud_token_blacklist_exists(token_blacklist, req[1].token)
    /\ LookupSubject(users, Issued[req[1].token].claims.sub) # None
    /\ now = 0 /\ calls = 0

\* The operations behind get_current_user or get_current_superuser.
Mandatory == {"read_users_me", "erase_user", "erase_db_user"}

\* The answers of a rejected call: a 401, or the fault as it was raised.
Rejections == {"UnauthorizedException", NotAuthenticated} \cup DbFaults

\* C16: behind get_current_user the handler runs only for a user that the
\* token resolved to: a call without a token, with a token that does not
\* verify, with a subject that has no live row, or hit by a fault of the
\* database, is answered with a 401 or with the fault, without a user, and
\* leaves the users table and the denylist as they were.
C16_MandatoryState ==
    ep.op \in Mandatory =>
       /\ ep.pc \in {"erase_get", "erase_delete", "erase_blacklist"}
            => ep.current_user \in UserNames
       /\ (ep.pc = "done" /\ ep.result \notin Rejections)
            => /\ ep.current_user \in UserNames
               /\ ep.token # None
               /\ Issued[ep.token].signed
               /\ Issued[ep.token].claims.token_type = "access"
               /\ Issued[ep.token].claims.sub \in
                     {ep.current_user, Email(ep.current_user)}
       /\ (ep.pc = "done" /\ ep.current_user = None) => ep.result \in Rejections

C16_MandatoryStep ==
    /\ (ep.pc \in {"idle", "done"} /\ ep' # ep /\ ep'.op \in Mandatory
          /\ ep'.token = None)
         => (ep'.pc = "done" /\ ep'.result = NotAuthenticated)
    /\ (ep.pc = "auth_verify" /\ ep' # ep)
         => /\ users' = users /\ token_blacklist' = token_blacklist
            /\ verify_token(ep.token, "access", token_blacklist, now).data = None
                 => (ep'.pc = "done" /\ ep'.result \in Rejections
                       /\ ep'.current_user = None)
    /\ (ep.pc = "auth_lookup" /\ ep' # ep /\ LookupSubject(users, ep.sub) = None)
         => /\ ep'.pc = "done" /\ ep'.result \in Rejections
            /\ ep'.current_user = None
            /\ users' = users /\ token_blacklist' = token_blacklist

C16_MandatoryNeverSwallows == []C16_MandatoryState /\ [][C16_MandatoryStep]_vars

\* erase_user, called with the denylisted token of a user, has been
\* answered UnauthorizedException and the user is still active.
C16_Witness ==
    /\ ep.pc = "done" /\ ep.op = "erase_user"
    /\ ep.result = "UnauthorizedException" /\ ep.current_user = None
    /\ crud_token_blacklist_exists(token_blacklist, ep.token)
    /\ Sound(ep.token, "access")
    /\ LookupSubject(users, Issued[ep.token].claims.sub) # None

\* C17: a call of the rate limiter that cannot reach the store counts
\* nothing and reports the request as not limited; the gate then lets the
\* request through, and no request ends with an error of the store.
C17_FailOpenState ==
    \A r \in Requests :
       /\ (req[r].pc = "decide" /\ req[r].count = 0) => ~req[r].is_limited
       /\ req[r].pc = "done"
            => req[r].outcome \in {"allowed", "RateLimitException", "KeyError",
                                   "CancelledError"}

C17_FailOpenStep ==
    \A r \in Requests :
       /\ (req[r].pc = "count" /\ req'[r].pc = "decide" /\ redis' = redis)
            => req'[r].count = 0
       /\ (req[r].pc = "decide" /\ req[r].count = 0 /\ req'[r].pc = "done"
             /\ req'[r].outcome # "CancelledError")
            => req'[r].outcome = "allowed"

C17_FailOpen == []C17_FailOpenState /\ [][C17_FailOpenStep]_vars

\* The counter of a client has reached the limit, and a request of that
\* client, checked while the store was out of reach, is let through.
C17_Witness ==
    \E r \in Requests :
       /\ req[r].pc = "decide" /\ req[r].count = 0 /\ ~req[r].is_limited
       /\ req[r].key \in DOMAIN redis
       /\ redis[req[r].key].value >= settings.DEFAULT_RATE_LIMIT_LIMIT

\* C19: no step lowers or resets a counter: from one state to the next a
\* counter keeps its expiry and its value does not go down, until the
\* store drops it at its expiry.
C19_CounterMonotonic ==
    [][\A k \in DOMAIN redis :
          IF k \in DOMAIN redis'
          THEN /\ redis'[k].value >= redis[k].value
               /\ redis'[k].expire_at = redis[k].expire_at
          ELSE redis[k].expire_at <= now']_vars

\* Two requests were counted; one was rejected and the caller of the other
\* went away, and the counter still holds both increments.
C19_Witness ==
    \E r1, r2 \in Requests :
       /\ req[r1].pc = "done" /\ req[r1].outcome = "RateLimitException"
       /\ req[r2].pc = "done" /\ req[r2].outcome = "CancelledError"
       /\ \E k \in DOMAIN redis : redis[k].value = 2

\* The positions a request may move to from each position: unauthenticated
\* (idle, then inside get_optional_user), at the gate with or without a
\* user (wait), quota resolved (count, decide), decided (done).
GateMoves(pc) ==
    CASE pc \in {"idle", "done"} -> {"opt_verify", "wait"}
      [] pc = "opt_verify" -> {"cur_verify", "wait"}
      [] pc = "cur_verify" -> {"cur_lookup", "wait"}
      [] pc = "cur_lookup" -> {"wait"}
      [] pc = "wait" -> {"count"}
      [] pc = "count" -> {"decide"}
      [] pc = "decide" -> {"done"}

\* C18: every step of a request follows the state machine of the gate: a
\* request gets a user only inside get_optional_user, its quota is resolved
\* before it is counted, it is counted before it is decided, and it ends
\* either allowed or with RateLimitException, the latter exactly when the
\* counter said limited.
C18_GateStateMachine ==
    [][\A r \in Requests :
          req'[r] # req[r]
            => /\ req'[r].pc \in GateMoves(req[r].pc)
               /\ req'[r].pc = "count" => req'[r].quota.err = None
               /\ req'[r].pc = "done"
                    => /\ req'[r].outcome \in {"allowed", "RateLimitException"}
                       /\ req'[r].outcome = "RateLimitException" <=> req[r].is_limited]_vars

\* C20: erase_db_user, a superuser-only operation, called by an
\* authenticated user who is not a superuser is answered
\* ForbiddenException, called without a valid identity it is answered with
\* a 401, and in both cases the users table keeps the user.
C20_SuperuserOnly ==
    (ep.op = "erase_db_user" /\ ep.pc = "done")
      => /\ ep.current_user # None => ep.result = "ForbiddenException"
         /\ ep.current_user = None => ep.result \in Rejections
         /\ users["bob"] # "absent"

\* The four situations of the quota resolution of rate_limiter_dependency,
\* lines 81-102.
Branches == {"rule", "no_rule", "no_tier", "anonymous"}

\* rate_limiter_dependency, lines 91-98: the warning a branch of the quota
\* resolution logs, None where it logs nothing.
BranchWarning(branch) ==
    CASE branch = "no_rule" -> "has no specific rate limit for path"
      [] branch = "no_tier" -> "has no assigned tier"
      [] OTHER -> None

\* C21: the four situations of the quota resolution (tier with a rule, tier
\* without a rule, no tier, anonymous) are told apart by what the gate
\* logs: what is logged for a request whose quota was resolved is logged
\* in no other situation.
C21_BranchesObservable ==
    \A r \in Requests :
       req[r].pc \in {"count", "decide"}
         => \A b \in Branches \ {req[r].quota.branch} :
               BranchWarning(b) # BranchWarning(req[r].quota.branch)

\* C22: counters are independent across keys, paths and windows: a step
\* changes at most the counter of the (key, path, current window) of the
\* request that is being counted, leaving every other counter as it was
\* until its expiry, and a request is reported limited only when the
\* counter of its own key exceeds its limit.
C22_CounterState ==
    \A r \in Requests :
       (req[r].pc = "decide" /\ req[r].is_limited)
         => /\ req[r].key = CounterKey(req[r].quota.user_id, sanitize_path(req[r].path),
                                       req[r].quota.period, now)
                 \/ req[r].key \notin DOMAIN redis
                 \/ now >= (req[r].key.window + 1) * req[r].quota.period
            /\ req[r].count > req[r].quota.limit
            /\ req[r].key \in DOMAIN redis => redis[req[r].key].value >= req[r].count

C22_CounterStep ==
    \A k \in DOMAIN redis \cup DOMAIN redis' :
       LET before == IF k \in DOMAIN redis THEN redis[k].value ELSE 0
           after == IF k \in DOMAIN redis' THEN redis'[k].value ELSE 0
       IN before # after
            => \/ k \notin DOMAIN redis' /\ redis[k].expire_at <= now'
               \/ \E r \in Requests :
                     /\ req[r].pc = "count" /\ req'[r].pc = "decide"
                     /\ k = CounterKey(req[r].quota.user_id, sanitize_path(req[r].path),
                                       req[r].quota.period, now)
                     /\ after = before + 1
                     /\ \A j \in (DOMAIN redis \cup DOMAIN redis') \ {k} :
                           j \in DOMAIN redis /\ j \in DOMAIN redis' /\ redis'[j] = redis[j]

C22_CounterIndependence == []C22_CounterState /\ [][C22_CounterStep]_vars

\* The counter of a client for one path has reached the limit, and a request
\* of the same client for the other path is counted as the first under its
\* own counter and is not limited.
C22_Witness ==
    \E r \in Requests :
       /\ req[r].pc = "decide" /\ req[r].count = 1 /\ ~req[r].is_limited
       /\ \E k \in DOMAIN redis :
             /\ k.user_id = req[r].key.user_id
             /\ k.path # req[r].key.path
             /\ k.window = req[r].key.window
             /\ redis[k].value >= req[r].quota.limit

\* The subjects and issue times tokens are created for.
AccessIssues == { <<"alice", 0>>, <<"alice", TimeStep>>, <<"bob@x", 0>>, <<"ghost", 0>> }

RefreshIssues == { <<"alice", 0>> }

\* C23: a token made by create_access_token for a subject verifies as an
\* access token with that subject while it is unexpired and not
\* denylisted, and never as a refresh token; a token made by
\* create_refresh_token verifies as a refresh token and never as an access
\* token, so presented as a bearer credential it authenticates nobody:
\* get_optional_user gives None, get_current_user raises
\* UnauthorizedException, and an endpoint called with it serves no user.
C23_TokenRoundTrip ==
    /\ \A i \in AccessIssues :
          LET token == create_access_token(i[1], i[2]) IN
          /\ verify_token(token, "access", token_blacklist, now).data
               = IF crud_token_blacklist_exists(token_blacklist, token)
                      \/ i[2] + ACCESS_TOKEN_EXPIRE_MINUTES * 60 < now
                 THEN None ELSE i[1]
          /\ verify_token(token, "refresh", token_blacklist, now).data = None
    /\ \A i \in RefreshIssues :
          LET token == create_refresh_token(i[1], i[2]) IN
          /\ verify_token(token, "refresh", token_blacklist, now).data
               = IF crud_token_blacklist_exists(token_blacklist, token)
                      \/ i[2] + REFRESH_TOKEN_EXPIRE_DAYS * 86400 < now
                 THEN None ELSE i[1]
          /\ verify_token(token, "access", token_blacklist, now).data = None
          /\ get_optional_user(Bearer(token), token_blacklist, users, now) = None
          /\ get_current_user(token, token_blacklist, users, now) = "UnauthorizedException"
          /\ (ep.pc = "done" /\ ep.token = token /\ ep.op # "logout")
               => ep.current_user = None /\ ep.result \in {"UnauthorizedException"} \cup DbFaults

\* An endpoint behind get_current_user was called with the unexpired refresh
\* token of an active user, which is not denylisted, and refused it, while
\* an access token of the same user verifies.
C23_Witness ==
    /\ ep.pc = "done" /\ ep.op = "read_users_me"
    /\ ep.token = create_refresh_token("alice", 0)
    /\ ep.result = "UnauthorizedException"
    /\ ~crud_token_blacklist_exists(token_blacklist, ep.token)
    /\ verify_token(ep.token, "refresh", token_blacklist, now).data = "alice"
    /\ users["alice"] = "active"
    /\ verify_token(create_access_token("alice", TimeStep), "access", token_blacklist, now).data = "alice"

\* C24: once erase_user has succeeded for a user, the access token of that
\* call is in the denylist and the user is soft-deleted for good: no
\* token of the user, denylisted or not, resolves to the user again. Up to
\* the deletion the call changes neither the users table nor the denylist,
\* so a call answered NotFoundException or ForbiddenException leaves both
\* as they were.
C24_ErasedState ==
    (ep.op = "erase_user" /\ ep.pc = "done" /\ ep.result = "ok")
      => /\ crud_token_blacklist_exists(token_blacklist, ep.token)
         /\ ep.current_user # None
         /\ users[ep.current_user] = "deleted"
         /\ \A token \in Tokens :
               Issued[token].claims.sub \in {ep.current_user, Email(ep.current_user)}
                 => /\ get_current_user(token, token_blacklist, users, now)
                         = "UnauthorizedException"
                    /\ get_optional_user(Bearer(token), token_blacklist, users, now) = None

C24_ErasedStep ==
    /\ \A u \in UserNames : users[u] = "deleted" => users'[u] = "deleted"
    /\ (ep.op = "erase_user" /\ ep.pc \in {"auth_verify", "auth_lookup", "erase_get"}
          /\ ep' # ep)
         => users' = users /\ token_blacklist' = token_blacklist
    /\ (ep.pc = "erase_get" /\ ep'.pc = "done")
         => ep'.result \in {"NotFoundException", "ForbiddenException"}
    /\ (ep.pc # "done" /\ ep'.pc = "done" /\ ep'.op = "erase_user" /\ ep'.result = "ok")
         => ep.pc = "erase_blacklist" /\ users[ep.current_user] = "deleted"

C24_EraseUserEffects == []C24_ErasedState /\ [][C24_ErasedStep]_vars

\* erase_user has succeeded for a user, and a gate request that bears another
\* token of that user, unexpired and not denylisted, waits at the gate as an
\* anonymous caller.
C24_Witness ==
    /\ ep.op = "erase_user" /\ ep.pc = "done" /\ ep.result = "ok"
    /\ req[1].pc = "wait" /\ req[1].token # None /\ req[1].user = None
    /\ req[1].token # ep.token
    /\ Issued[req[1].token].claims.sub \in {ep.current_user, Email(ep.current_user)}
    /\ Sound(req[1].token, "access")
    /\ ~crud_token_blacklist_exists(token_blacklist, req[1].token)

\* C25: the path a request is matched against rules with and the path its
\* counter is keyed by are one value, the normalized path of the request:
\* the quota is resolved with sanitize_path of the request's path, a quota
\* taken from a rule is that of a rule for this path, and the counter that
\* is incremented carries this path.
C25_PathState ==
    \A r \in Requests :
       /\ (req[r].pc \in {"count", "decide"} /\ req[r].quota.branch = "rule")
            => \E rule \in RateLimitRows :
                  /\ rule.path = sanitize_path(req[r].path)
                  /\ rule.limit = req[r].quota.limit
                  /\ rule.period = req[r].quota.period
       /\ req[r].pc = "decide" => req[r].key.path = sanitize_path(req[r].path)

C25_PathStep ==
    \A r \in Requests :
       /\ (req[r].pc = "wait" /\ req'[r].pc = "count")
            => req'[r].quota = ResolveQuota(req[r].user, sanitize_path(req[r].path),
                                            req[r].client, settings)
       /\ (req[r].pc = "count" /\ req'[r].pc = "decide")
            => /\ req'[r].key = CounterKey(req[r].quota.user_id, sanitize_path(req[r].path),
                                           req[r].quota.period, now)
               /\ \A k \in DOMAIN redis' :
                     (k \notin DOMAIN redis \/ redis'[k] # redis[k]) => k = req'[r].key

C26_LogoutAllOrNothing ==
    (ep.op = "logout" /\ ep.pc = "done" /\ ep.result # "ok" /\ calls = 1)
      => token_blacklist = {}

\* C26: logout denylists its tokens one at a time, the access token first,
\* and takes nothing back. A logout that ends with an error at the access
\* token has added nothing; one that ends with an error at the refresh
\* token has not added the refresh token, and the access token it added
\* before stays in the denylist; a logout that succeeds has added both.
C26_LogoutState ==
    /\ ep.pc = "blacklist_refresh"
         => crud_token_blacklist_exists(token_blacklist, ep.token)
    /\ (ep.op = "logout" /\ ep.pc = "done" /\ ep.result # "ok" /\ calls = 1)
         => \A row \in token_blacklist : row.token = ep.token

C26_LogoutStep ==
    /\ (ep.pc = "blacklist_access" /\ ep'.pc = "done")
         => ep'.result # "ok" /\ token_blacklist' = token_blacklist
    /\ (ep.pc = "blacklist_access" /\ ep'.pc = "blacklist_refresh")
         => token_blacklist' = token_blacklist
                \cup {[token |-> ep.token, expires_at |-> Issued[ep.token].claims.exp]}
    /\ (ep.pc = "blacklist_refresh" /\ ep'.pc = "done" /\ ep'.result # "ok")
         => /\ token_blacklist' = token_blacklist
            /\ crud_token_blacklist_exists(token_blacklist', ep.token)
    /\ (ep.pc = "blacklist_refresh" /\ ep'.pc = "done" /\ ep'.result = "ok")
         => /\ crud_token_blacklist_exists(token_blacklist', ep.token)
            /\ crud_token_blacklist_exists(token_blacklist', ep.refresh_token)

C26_LogoutStepwise == []C26_LogoutState /\ [][C26_LogoutStep]_vars

\* The first logout has ended with an error at its refresh token, and its
\* access token, which was not denylisted before, is in the denylist.
C26_Witness ==
    /\ ep.op = "logout" /\ ep.pc = "done" /\ ep.result = "UnauthorizedException"
    /\ calls = 1
    /\ crud_token_blacklist_exists(token_blacklist, ep.token)
    /\ get_current_user(ep.token, {}, users, now) = "alice"
    /\ get_current_user(ep.token, token_blacklist, users, now) = "UnauthorizedException"

C28_RaceStep ==
    \A r \in Requests :
       (req[r].pc \in Resolving /\ req'[r] # req[r])
         => /\ req'[r].pc \in Resolving \cup {"wait"}
            /\ req'[r].outcome = None
            /\ (req[r].pc = "cur_verify"
                  /\ crud_token_blacklist_exists(token_blacklist, req[r].token))
                 => (req'[r].pc = "wait" /\ req'[r].user = None)
            /\ req'[r].pc = "cur_lookup"
                 => /\ req[r].pc = "cur_verify"
                    /\ ~crud_token_blacklist_exists(token_blacklist, req[r].token)
                    /\ verify_token(req[r].token, "access", token_blacklist, now).data
                         = Issued[req[r].token].claims.sub
            /\ (req[r].pc = "cur_lookup"
                  /\ \A u \in UserNames :
                        Issued[req[r].token].claims.sub \in {u, Email(u)}
                          => users[u] # "active")
                 => (req'[r].pc = "wait" /\ req'[r].user = None)
            /\ req'[r].user # None
                 => /\ req[r].pc = "cur_lookup"
                    /\ users[req'[r].user] = "active"
                    /\ Issued[req[r].token].claims.sub
                         \in {req'[r].user, Email(req'[r].user)}

C28_OptionalUserRace == [][C28_RaceStep]_vars

\* A request passed the first verification of get_optional_user; before the
\* second one ran, a logout put its token on the denylist.
C28_Witness ==
    /\ req[1].pc = "cur_verify"
    /\ crud_token_blacklist_exists(token_blacklist, req[1].token)
    /\ ep.op = "logout" /\ ep.pc = "done" /\ ep.result = "ok"
    /\ ep.token = req[1].token

\* C29: a request of an authenticated user whose tier_id refers to a tier
\* that erase_tier has deleted is not failed by the gate: the tier lookup
\* finds nothing, and the request leaves the quota resolution like that of
\* a user without a tier, with the default limit and period under the id
\* of the user, and goes on to be counted.
C29_ErasedTierFallback ==
    [][\A r \in Requests :
          (req[r].pc = "wait" /\ req[r].user # None /\ req'[r] # req[r]
             /\ HasTier(req[r].user)
             /\ \A row \in TierRows : row.id # AssignedTier(req[r].user))
            => /\ req'[r].pc = "count"
               /\ req'[r].quota.branch = "no_tier"
               /\ req'[r].quota.user_id = UserId(req[r].user)
               /\ req'[r].quota.limit = settings.DEFAULT_RATE_LIMIT_LIMIT
               /\ req'[r].quota.period = settings.DEFAULT_RATE_LIMIT_PERIOD]_vars

\* C30: the Event is set only by lifespan, once, after the pools and the
\* tables have been created, and once set it stays set; a gate without an
\* Event in the application state can always go on; and every request
\* that waits at the gate eventually gets past the barrier.
C30_BarrierState ==
    /\ initialization_complete = "set" => lifespan_pc = "serving"
    /\ initialization_complete = None => lifespan_pc \in {"not_started", "none"}
    /\ \A r \in BarrierSlots :
          (initialization_complete = None /\ req[r].pc = "wait") => ENABLED GateResolve(r)

C30_BarrierStep ==
    /\ initialization_complete = "set" => initialization_complete' = "set"
    /\ (initialization_complete # "set" /\ initialization_complete' = "set")
         => /\ lifespan_pc = "created"
            /\ initialization_complete = "clear"
    /\ initialization_complete' = "clear" => initialization_complete \in {None, "clear"}

C30_BarrierLiveness ==
    /\ []C30_BarrierState
    /\ [][C30_BarrierStep]_vars
    /\ \A r \in BarrierSlots : (req[r].pc = "wait") ~> (req[r].pc \in PastBarrier)

\* An anonymous request, which arrived before the Event was set and waited
\* at the barrier, has been counted after lifespan set the Event.
C30_Witness ==
    /\ initialization_complete = "set"
    /\ lifespan_pc = "serving"
    /\ req[1].pc = "decide" /\ req[1].token = None /\ req[1].user = None
    /\ req[1].count >= 1

====
